---- MODULE Spec2Model ----
(***************************************************************************)
(* Model of the query router of the career assistant:                      *)
(*   src/src/agents/orchestrator.py  Orchestrator._convert_history,        *)
(*                                   route_query, stream_query             *)
(*   src/src/agents/sql_agent.py     SQLAgent.run                          *)
(*   src/src/agents/rag_agent.py     RAGAgent.run                          *)
(*                                                                         *)
(* A text is a sequence of units (short strings); a fixed literal of the   *)
(* source is one unit, so f"literal{x}" is <<literal>> \o x.               *)
(*                                                                         *)
(* The agent built by create_agent is driven through one run.  The run is  *)
(* what self.agent.stream(...) yields item by item and what                *)
(* self.agent.invoke(...) returns the final state of, for the same input   *)
(* and the same behaviour of the models and the gateways.                  *)
(***************************************************************************)
EXTENDS Naturals, Sequences, FiniteSets, TLC

\* ------------------------------------------------------------------ bounds
\* model turns of the orchestrator agent in one run
MaxTurns == 2
\* items of the agent stream after which the run hastens to its end
MaxItems == 4
\* the longest history list
MaxHistory == 3
\* the most items one of two interleaved calls takes from its stream
MaxCallItems == 2
\* the most points the collection ranks for a query, and the largest limit
MaxHits == 3
\* how far below and above the snippet limit the lengths of a tool output go
SnippetWindow == 3
\* the most tokens of a call whose speakers are tracked
MaxTokens == 3
\* the largest number of questions the candidate may choose
MaxQuestions == 2
\* the most answers a candidate records
MaxRecordings == 2
\* the most calls of the interview page that raise
MaxFailures == 1
\* the most uploads and recordings one session of the app makes
MaxUploads == 2

VARIABLES
    chat_history,         \* the caller's history argument
    agent,                \* state of the run of self.agent
    agentStream,          \* the iterator self.agent.stream(...): "none", "open", "closed"
    pc,                   \* position of the stream_query generator
    resume,               \* the yield the generator is suspended at
    yieldsLeft,           \* events the item being translated has still to yield
    events,               \* events the consumer has received, in order
    origin,               \* for each received event, the item and the model turn it came from
    current_agent,        \* local of stream_query
    total_input_tokens,   \* local of stream_query
    total_output_tokens,  \* local of stream_query
    raised,               \* the exception the run raised, if any, and where
    closeRequested,       \* the consumer closed the generator
    usageSum,             \* usage reported by all model calls so far
    orchContent,          \* contents of the non-empty orchestrator-tagged tokens delivered
    delivered,            \* tool calls requested and tool invocations completed by the
                          \* items delivered so far, and the tokens with text that are
                          \* not the orchestrator's
    gatewayFailure,       \* the last failure of a gateway call, if any
    routeResult,          \* what route_query gave its caller for the same run
    norm,                 \* results of _convert_history and the message lists built from them
    sessions,             \* the calls of stream_query in progress on one Orchestrator
    shared,               \* the attributes of the Orchestrator the calls use
    retrieval,            \* a call of RAGAgent.retrieve_documents
    gateway,              \* a call of SQLAgent.run or RAGAgent.run
    interview,            \* the session state of the interview page of app.py
    files,                \* the temporary files of the Streamlit app and its sessions
    startup,              \* the lifespan of the API and its registry of agents
    request               \* a request to /cv/analyze or /cover-letter/generate

\* the variables of the specifications of app.py, main.py and the gateways
appVars == << gateway, interview, files, startup, request >>

\* the variables of the specifications of the history, the sessions and the retrieval
auxVars == << norm, sessions, shared, retrieval, appVars >>

\* the variables of one call of stream_query and route_query
streamVars == << agent, agentStream, pc, resume, yieldsLeft, events, origin,
                 current_agent, total_input_tokens, total_output_tokens, raised,
                 closeRequested, usageSum, orchContent, delivered, gatewayFailure,
                 routeResult >>

vars == << chat_history, agent, agentStream, pc, resume, yieldsLeft, events, origin,
           current_agent, total_input_tokens, total_output_tokens, raised,
           closeRequested, usageSum, orchContent, delivered, gatewayFailure,
           routeResult, auxVars >>

\* ------------------------------------------------------------------ texts
Last(s) == s[Len(s)]

RECURSIVE Concat(_)
Concat(ss) == IF ss = << >> THEN << >> ELSE Head(ss) \o Concat(Tail(ss))

\* exception classes below Exception, and the BaseException-only ones
ExceptionClasses == { "ValueError", "RuntimeError" }
NoExc == [cls |-> "none", detail |-> << >>, at |-> 0]

\* ------------------------------------------------------------------ exceptions
\* a handler that names one exception class
RouteCatchesValueError(cls) == cls = "ValueError"

\* orchestrator.py:128  except Exception as e
RouteCatches(cls) == cls \in ExceptionClasses

\* a handler that names one exception class
StreamCatchesValueError(cls) == cls = "ValueError"

\* a bare except, which also catches GeneratorExit
StreamCatchesAll(cls) == TRUE

\* orchestrator.py:208  except Exception as e
StreamCatches(cls) == cls \in ExceptionClasses

\* orchestrator.py:130
RouteApology(detail) == <<"Sorry, there was a technical issue: ">> \o detail

\* orchestrator.py:210
StreamApology(detail) ==
    <<"Sorry, there was a technical issue during streaming: ">> \o detail

\* ------------------------------------------------------------------ messages
HumanMessage(c) == [type |-> "human", content |-> c, tool_calls |-> << >>]
AIMessage(c, tcs) == [type |-> "ai", content |-> c, tool_calls |-> tcs]
ToolMessage(c) == [type |-> "tool", content |-> c, tool_calls |-> << >>]
SystemMessage(c) == [type |-> "system", content |-> c, tool_calls |-> << >>]

\* ------------------------------------------------------------------ history
\* elements of a list history: a mapping (role and content may be missing: m.get
\* gives None), or an object that already is a message
DictElem(role, hasContent, c) ==
    [shape |-> "dict", role |-> role, hasContent |-> hasContent, content |-> c]
\* an element that is a message object (it has the attribute content)
MsgElem(m) == [shape |-> "message", msg |-> m]
\* an element that is neither a mapping nor an object with a content attribute
OtherElem == [shape |-> "other"]

\* the history values of this model
HistoryInputs ==
    { [form |-> "none", blob |-> << >>, elems |-> << >>],
      [form |-> "list", blob |-> << >>,
       elems |-> << DictElem("user", TRUE, <<"q0">>), DictElem("assistant", TRUE, <<"a0">>) >>],
      [form |-> "list", blob |-> << >>,
       elems |-> << DictElem("user", FALSE, << >>) >>] }

RECURSIVE ConvertListDictsOnly(_)
\* a conversion without the branch for message objects
ConvertListDictsOnly(elems) ==
    IF elems = << >> THEN [exc |-> NoExc, value |-> << >>]
    ELSE LET m == Head(elems)
             keep == m.shape = "dict" /\ m.role \in {"user", "assistant"}
         IN  IF keep /\ ~m.hasContent
             THEN [exc |-> [cls |-> "ValueError", detail |-> <<"e1">>, at |-> 0],
                   value |-> << >>]
             ELSE LET rest == ConvertListDictsOnly(Tail(elems))
                      this == IF ~keep THEN << >>
                              ELSE IF m.role = "user"
                                   THEN << HumanMessage(m.content) >>
                                   ELSE << AIMessage(m.content, << >>) >>
                  IN  [exc |-> rest.exc,
                       value |-> IF rest.exc.cls = "none" THEN this \o rest.value ELSE << >>]

RECURSIVE ConvertListNewestFirst(_)
\* a conversion that inserts each turn at the front of its list
ConvertListNewestFirst(elems) ==
    IF elems = << >> THEN [exc |-> NoExc, value |-> << >>]
    ELSE LET m == Head(elems)
             keep == m.shape = "dict" /\ m.role \in {"user", "assistant"}
         IN  IF keep /\ ~m.hasContent
             THEN [exc |-> [cls |-> "ValueError", detail |-> <<"e1">>, at |-> 0],
                   value |-> << >>]
             ELSE LET rest == ConvertListNewestFirst(Tail(elems))
                      this == IF keep
                              THEN IF m.role = "user"
                                   THEN << HumanMessage(m.content) >>
                                   ELSE << AIMessage(m.content, << >>) >>
                              ELSE IF m.shape = "message" THEN << m.msg >> ELSE << >>
                  IN  [exc |-> rest.exc,
                       value |-> IF rest.exc.cls = "none" THEN rest.value \o this ELSE << >>]

RECURSIVE ConvertList(_)
\* orchestrator.py:85-94; a message built with content None is refused by the
\* message constructor
ConvertList(elems) ==
    IF elems = << >> THEN [exc |-> NoExc, value |-> << >>]
    ELSE LET m == Head(elems)
             keep == m.shape = "dict" /\ m.role \in {"user", "assistant"}
         IN  IF keep /\ ~m.hasContent
             THEN [exc |-> [cls |-> "ValueError", detail |-> <<"e1">>, at |-> 0],
                   value |-> << >>]
             ELSE LET rest == ConvertList(Tail(elems))
                      this == IF keep
                              THEN IF m.role = "user"
                                   THEN << HumanMessage(m.content) >>
                                   ELSE << AIMessage(m.content, << >>) >>
                              ELSE IF m.shape = "message" THEN << m.msg >> ELSE << >>
                  IN  [exc |-> rest.exc,
                       value |-> IF rest.exc.cls = "none" THEN this \o rest.value ELSE << >>]

\* a conversion that takes an empty string for no history
ConvertHistoryTruthy(h) ==
    IF h.form = "list" THEN ConvertList(h.elems)
    ELSE IF h.form = "str" /\ h.blob # << >>
         THEN [exc |-> NoExc,
               value |-> << HumanMessage(<<"Previous conversation context:\n">> \o h.blob) >>]
         ELSE [exc |-> NoExc, value |-> << >>]

\* orchestrator.py:78-99
ConvertHistory(h) ==
    IF h.form = "list" THEN ConvertList(h.elems)
    ELSE IF h.form = "str"
         THEN [exc |-> NoExc,
               value |-> << HumanMessage(<<"Previous conversation context:\n">> \o h.blob) >>]
         ELSE [exc |-> NoExc, value |-> << >>]

\* the current query
UserQuery == <<"q">>

\* a caller's list to which the query was appended in place
CallerHistoryExtended(h) ==
    IF h.form = "list"
    THEN [h EXCEPT !.elems = Append(@, MsgElem(HumanMessage(UserQuery)))]
    ELSE h

\* orchestrator.py:83, 115, 146: the caller's history object after a call.  The
\* conversion appends to a list of its own and the query is joined with +, which
\* builds a new list
CallerHistoryAfter(h) == h

\* orchestrator.py:112-115, 145-146: the messages handed to the agent, or the
\* exception of the conversion
BuildMessages(h) ==
    LET conv == ConvertHistory(h)
    IN  [exc |-> conv.exc,
         value |-> IF conv.exc.cls = "none"
                   THEN conv.value \o << HumanMessage(UserQuery) >> ELSE << >>]

\* orchestrator.py:101-105: route_request hands its history_text to route_query
RouteRequestHistory(history_text) ==
    [form |-> "str", blob |-> history_text, elems |-> << >>]

\* ------------------------------------------------------------------ gateways
\* what the inner agent loop of a gateway does with a question: an answer, or a raise
GatewayOutcomes == { [ok |-> TRUE, val |-> <<"r">>], [ok |-> FALSE, val |-> <<"e2">>] }

\* sql_agent.py:108-118
SQLAgentRun(o) == IF o.ok THEN o.val ELSE <<"Database error: ">> \o o.val

\* rag_agent.py:109-122
RAGAgentRun(o) ==
    IF o.ok THEN o.val
    ELSE <<"Sorry, there was a technical issue while searching: ">> \o o.val

\* a handler for ValueError only
GatewayCatchesValueError(cls) == cls = "ValueError"

\* sql_agent.py:116, rag_agent.py:120, 104  except Exception
GatewayCatches(cls) == cls \in ExceptionClasses

\* orchestrator.py:37-50: the two tools and the functions behind them
ToolNames == { "sql_job_stats", "rag_career_advice" }
ToolFunc(name, o) == IF name = "sql_job_stats" THEN SQLAgentRun(o) ELSE RAGAgentRun(o)

\* sql_agent.py:47, rag_agent.py:40: the tag of the model behind each tool
SubAgentTag(name) == IF name = "sql_job_stats" THEN "sql_agent" ELSE "rag_agent"

\* sql_agent.py:64, rag_agent.py:54: the custom event each gateway writes
CustomType(name) == IF name = "sql_job_stats" THEN "sql_query" ELSE "rag_search"

\* ------------------------------------------------------------------ stream items
NoUsage == [reported |-> FALSE, input_tokens |-> 0, output_tokens |-> 0]
\* usage a model call reports on its last chunk
SomeUsage == [reported |-> TRUE, input_tokens |-> 5, output_tokens |-> 2]

TokenItem(tags, c, u) ==
    [mode |-> "messages", tags |-> tags, content |-> c, usage |-> u,
     messages |-> << >>, type |-> ""]
UpdateItem(msgs) ==
    [mode |-> "updates", tags |-> << >>, content |-> << >>, usage |-> NoUsage,
     messages |-> msgs, type |-> ""]
CustomItem(type, c) ==
    [mode |-> "custom", tags |-> << >>, content |-> c, usage |-> NoUsage,
     messages |-> << >>, type |-> type]

\* ------------------------------------------------------------------ events
Ev(kind, text, tin, tout) ==
    [kind |-> kind, text |-> text, input_tokens |-> tin, output_tokens |-> tout]
Thought(text) == Ev("thought", text, 0, 0)
Content(text) == Ev("content", text, 0, 0)

Range(s) == { s[i] : i \in DOMAIN s }

\* orchestrator.py:167
SnippetLimit == 300
\* an output of exactly the limit is cut as well
SnippetFromLimit(c) ==
    IF Len(c) >= SnippetLimit THEN SubSeq(c, 1, SnippetLimit) \o <<"...">> ELSE c
\* orchestrator.py:167
Snippet(c) == IF Len(c) > SnippetLimit THEN SubSeq(c, 1, SnippetLimit) \o <<"...">> ELSE c

\* orchestrator.py:165
ToolStartThought(name) == Thought(<<"Using tool: ", name>>)
\* orchestrator.py:168
ToolFinishedThought(c) == Thought(<<"Tool finished. Output: ">> \o Snippet(c))

\* orchestrator.py:158-168: the thoughts of one node's state update
UpdateThoughts(msgs) ==
    LET msg == Last(msgs)
    IN  IF msg.type = "ai" /\ msg.tool_calls # << >>
        THEN [i \in 1..Len(msg.tool_calls) |-> ToolStartThought(msg.tool_calls[i])]
        ELSE IF msg.type = "tool"
             THEN << ToolFinishedThought(msg.content) >>
             ELSE << >>

\* orchestrator.py:170-177
CustomThoughts(item) ==
    IF item.type = "sql_query"
    THEN << Thought(<<"Generating SQL: ">> \o item.content) >>
    ELSE IF item.type = "rag_search"
         THEN << Thought(<<"Searching Knowledge Base for: ">> \o item.content) >>
         ELSE << >>

\* orchestrator.py:184-186: a total after a token
NextTotal(total, usage, reportedValue) == IF usage.reported THEN reportedValue ELSE total

\* orchestrator.py:192  this_agent.replace('_', ' ').title()
AgentTitle(a) ==
    IF a = "sql_agent" THEN "Sql Agent" ELSE IF a = "rag_agent" THEN "Rag Agent" ELSE a

\* orchestrator.py:189-191: the token announces a sub-agent
AnnouncesAgent(tags, cur) ==
    tags # << >> /\ tags[1] # cur /\ tags[1] \in {"sql_agent", "rag_agent"}

\* a speaker that is set when the call starts and never again
NextAgentKept(tags, cur) == cur

\* orchestrator.py:189-195: the tracked speaker after a token
NextAgent(tags, cur) ==
    IF AnnouncesAgent(tags, cur) THEN tags[1]
    ELSE IF tags # << >> /\ "orchestrator" \in Range(tags) THEN "orchestrator"
    ELSE cur

\* content shown whatever the tags of the token
EmitsAnyContent(item) == item.content # << >>

\* orchestrator.py:196-199: the token is shown as content
EmitsContent(item) ==
    item.content # << >> /\ item.tags # << >> /\ "orchestrator" \in Range(item.tags)

\* orchestrator.py:179-199: the events of one streamed token
TokenEvents(item, cur) ==
    (IF AnnouncesAgent(item.tags, cur)
     THEN << Thought(<<AgentTitle(item.tags[1]), " starts processing...">>) >>
     ELSE << >>)
    \o (IF EmitsContent(item) THEN << Content(item.content) >> ELSE << >>)

\* orchestrator.py:157-199: the events one item of the agent stream is translated to
Translate(item, cur) ==
    IF item.mode = "updates" THEN UpdateThoughts(item.messages)
    ELSE IF item.mode = "custom" THEN CustomThoughts(item)
    ELSE TokenEvents(item, cur)

\* ------------------------------------------------------------------ the agent run
\* orchestrator.py:72-76: the loop create_agent builds.  A model turn streams its
\* tokens (tagged orchestrator; text chunks, empty chunks, and a last chunk that
\* reports the usage of the call) and ends with a state update holding its AIMessage;
\* when that message requests tools, the tool functions run (their models stream
\* tokens under their own tag, the gateways write custom events, the tool node
\* streams its message untagged) and their ToolMessages arrive in state updates, one
\* or several per update; then the next model turn starts.  A model call may raise.
\* After MaxItems items the run goes to its end by the shortest way.  Of the run's
\* state: n counts the items produced, of is the model turn the last item belongs to.
IdleAgent ==
    [phase |-> "idle", turn |-> 0, of |-> 0, n |-> 0, cur |-> << >>, calls |-> << >>,
     msgs |-> << >>]

\* a run that searches the documents before its first model turn
AgentInitSearchFirst(messages) ==
    [phase |-> "tools", turn |-> 1, of |-> 0, n |-> 0, cur |-> << >>,
     calls |-> <<"rag_career_advice">>, msgs |-> messages]

AgentInit(messages) ==
    [phase |-> "model", turn |-> 1, of |-> 0, n |-> 0, cur |-> << >>, calls |-> << >>,
     msgs |-> messages]

Hurry(a) == a.n >= MaxItems

\* the tool calls a model turn may request: one tool, or both in either order
ToolRequests ==
    { <<"sql_job_stats">>, <<"rag_career_advice">>,
      <<"sql_job_stats", "rag_career_advice">>, <<"rag_career_advice", "sql_job_stats">> }

\* the chunks a model call streams: text, nothing, or the usage of the call
ModelChunks ==
    { [content |-> <<"a">>, usage |-> NoUsage],
      [content |-> << >>, usage |-> NoUsage],
      [content |-> << >>, usage |-> SomeUsage] }

\* the exception a model call of the run raises
AgentExceptions == { [cls |-> "RuntimeError", detail |-> <<"e2">>, at |-> 0] }

NoFailure == [any |-> FALSE, detail |-> << >>]

Outcome(kind, item, exc, next, requested, completed, fail) ==
    [kind |-> kind, item |-> item, exc |-> exc, next |-> next,
     requested |-> requested, completed |-> completed, fail |-> fail]

ItemOutcome(item, next) == Outcome("item", item, NoExc, next, 0, 0, NoFailure)

ModelTokens(a) ==
    IF a.phase = "model" /\ ~Hurry(a)
    THEN { ItemOutcome(TokenItem(<<"orchestrator">>, c.content, c.usage),
                       [a EXCEPT !.n = @ + 1, !.of = a.turn, !.cur = @ \o c.content,
                                 !.phase = IF c.usage.reported THEN "modelEnd" ELSE "model"])
           : c \in ModelChunks }
    ELSE {}

ModelUpdate(a) ==
    IF a.phase \in {"model", "modelEnd"}
    THEN { Outcome("item", UpdateItem(<< AIMessage(a.cur, tcs) >>), NoExc,
                   [a EXCEPT !.n = @ + 1, !.of = a.turn, !.msgs = Append(@, AIMessage(a.cur, tcs)),
                             !.phase = IF tcs = << >> THEN "end" ELSE "tools",
                             !.calls = tcs, !.cur = << >>],
                   Len(tcs), 0, NoFailure)
           : tcs \in {<< >>} \cup (IF a.turn < MaxTurns /\ ~Hurry(a) THEN ToolRequests ELSE {}) }
    ELSE {}

ModelRaises(a) ==
    IF a.phase = "model"
    THEN { Outcome("raise", UpdateItem(<< >>), e, a, 0, 0, NoFailure) : e \in AgentExceptions }
    ELSE {}

ToolTokens(a) ==
    IF a.phase = "tools" /\ ~Hurry(a)
    THEN { ItemOutcome(TokenItem(<<SubAgentTag(Head(a.calls))>>, c.content, c.usage),
                       [a EXCEPT !.n = @ + 1, !.of = a.turn])
           : c \in ModelChunks \ { [content |-> << >>, usage |-> NoUsage] } }
         \cup { ItemOutcome(TokenItem(<< >>, <<"a">>, NoUsage), [a EXCEPT !.n = @ + 1, !.of = a.turn]) }
    ELSE {}

ToolCustom(a) ==
    IF a.phase = "tools" /\ ~Hurry(a)
    THEN { ItemOutcome(CustomItem(CustomType(Head(a.calls)), <<"a">>),
                       [a EXCEPT !.n = @ + 1, !.of = a.turn]) }
    ELSE {}

\* the failure among the outcomes of the tools that ran, if any
FailureOf(os) ==
    IF \E i \in DOMAIN os : ~os[i].ok
    THEN [any |-> TRUE, detail |-> os[CHOOSE i \in DOMAIN os : ~os[i].ok].val]
    ELSE NoFailure

ToolResults(a) ==
    IF a.phase = "tools"
    THEN UNION { { LET out == [i \in 1..k |-> ToolMessage(ToolFunc(a.calls[i], os[i]))]
                       rest == SubSeq(a.calls, k + 1, Len(a.calls))
                   IN  Outcome("item", UpdateItem(out), NoExc,
                               [a EXCEPT !.n = @ + 1, !.of = a.turn, !.msgs = @ \o out, !.calls = rest,
                                         !.phase = IF rest = << >> THEN "model" ELSE "tools",
                                         !.turn = IF rest = << >> THEN @ + 1 ELSE @],
                               0, k, FailureOf(os))
                   : os \in [1..k -> GatewayOutcomes] }
                 : k \in (IF Hurry(a) THEN {Len(a.calls)} ELSE 1..Len(a.calls)) }
    ELSE {}

\* the end of the run: the last model turn requested no tool
AgentStops(a) ==
    IF a.phase = "end"
    THEN { Outcome("stop", UpdateItem(<< >>), NoExc, a, 0, 0, NoFailure) }
    ELSE {}

\* what the next pull from the agent stream may give
AgentOutcomes(a) ==
    ModelTokens(a) \cup ModelUpdate(a) \cup ModelRaises(a) \cup ToolTokens(a)
        \cup ToolCustom(a) \cup ToolResults(a) \cup AgentStops(a)

\* ------------------------------------------------------------------ route_query
NoResult == [kind |-> "none", text |-> << >>]

\* a route_query that returns the first answer of the run's own messages
RouteOutcomeFirstAnswer(exc, finalMsgs) ==
    IF exc.cls # "none"
    THEN [kind |-> "returned", text |-> RouteApology(exc.detail)]
    ELSE LET own == { i \in DOMAIN finalMsgs :
                        /\ finalMsgs[i].type = "ai"
                        /\ \E j \in 1..(i - 1) : finalMsgs[j] = HumanMessage(UserQuery) }
         IN  [kind |-> "returned",
              text |-> finalMsgs[CHOOSE i \in own : \A k \in own : i <= k].content]

\* orchestrator.py:107-130, on the run's outcome: the exception it raised, or its
\* final state
RouteOutcome(exc, finalMsgs) ==
    IF exc.cls # "none"
    THEN IF RouteCatches(exc.cls)
         THEN [kind |-> "returned", text |-> RouteApology(exc.detail)]
         ELSE [kind |-> "raised", text |-> exc.detail]
    ELSE [kind |-> "returned", text |-> Last(finalMsgs).content]

\* ------------------------------------------------------------------ idle values
\* a conversion or a hand-over that has not run
NotRun == [done |-> FALSE, exc |-> NoExc, value |-> << >>]
Ran(r) == [done |-> TRUE, exc |-> r.exc, value |-> r.value]
\* orchestrator.py:34, 72-76: the attributes stream_query reads
Attributes == [agent |-> "agent", langfuse_handler |-> "handler"]
\* the calls of stream_query made on one Orchestrator
Calls == {1, 2}
\* orchestrator.py:139-142: the local names of a call as it enters its loop
LocalsInit ==
    [current_agent |-> "orchestrator", total_input_tokens |-> 0, total_output_tokens |-> 0]
IdleCall == [pc |-> "created", items |-> << >>, events |-> << >>, locals |-> LocalsInit]
NoRetrieval ==
    [pc |-> "idle", ranking |-> << >>, limit |-> 0, hits |-> << >>, documents |-> << >>,
     failed |-> FALSE]

NoGateway == [pc |-> "idle"]
NoInterview == [pc |-> "idle"]
NoFiles == [pc |-> "idle"]
NoStartup == [pc |-> "idle"]
NoRequest == [pc |-> "idle"]

\* ------------------------------------------------------------------ stream_query
\* a consumer handed the newest event first
EmitFirst(s, e) == << e >> \o s

\* the consumer receives an event
Emit(s, e) == Append(s, e)

\* where an event comes from: the item's number and the model turn of the run
Origin == [item |-> agent.n, turn |-> agent.of]

\* an exception raised inside the try block at orchestrator.py:144-206
Propagate(cls) == IF StreamCatches(cls) THEN "handler" ELSE "raisedOut"

\* no conversion, no second call and no retrieval is in progress
RouterAuxIdle ==
    /\ norm = [first |-> NotRun, second |-> NotRun, route |-> NotRun, request |-> NotRun]
    /\ sessions = [c \in Calls |-> IdleCall]
    /\ shared = Attributes

GatewayIdle == gateway = NoGateway
InterviewIdle == interview = NoInterview
FilesIdle == files = NoFiles
StartupIdle == startup = NoStartup
RequestIdle == request = NoRequest

\* nothing is in progress in the other specifications
AuxIdle ==
    /\ RouterAuxIdle
    /\ retrieval = NoRetrieval
    /\ GatewayIdle
    /\ InterviewIdle
    /\ FilesIdle
    /\ StartupIdle
    /\ RequestIdle

\* no call of stream_query or route_query has started
StreamIdle ==
    /\ agent = IdleAgent
    /\ agentStream = "none"
    /\ pc = "created"
    /\ resume = "none"
    /\ yieldsLeft = << >>
    /\ events = << >>
    /\ origin = << >>
    /\ current_agent = "orchestrator"
    /\ total_input_tokens = 0
    /\ total_output_tokens = 0
    /\ raised = NoExc
    /\ closeRequested = FALSE
    /\ usageSum = [input_tokens |-> 0, output_tokens |-> 0]
    /\ orchContent = << >>
    /\ delivered = [requested |-> 0, completed |-> 0, hidden |-> 0]
    /\ gatewayFailure = NoFailure
    /\ routeResult = NoResult

Init ==
    /\ chat_history \in HistoryInputs
    /\ StreamIdle
    /\ AuxIdle

\* orchestrator.py:139-156: the first pull runs the generator up to the loop
StartStream ==
    /\ UNCHANGED auxVars
    /\ pc = "created"
    /\ current_agent' = "orchestrator"
    /\ total_input_tokens' = 0
    /\ total_output_tokens' = 0
    /\ LET conv == ConvertHistory(chat_history)
       IN  IF conv.exc.cls # "none"
           THEN /\ raised' = [conv.exc EXCEPT !.at = Len(events)]
                /\ pc' = Propagate(conv.exc.cls)
                /\ UNCHANGED << agent, agentStream >>
           ELSE /\ agent' = AgentInit(conv.value \o << HumanMessage(UserQuery) >>)
                /\ agentStream' = "open"
                /\ pc' = "loop"
                /\ UNCHANGED raised
    /\ chat_history' = CallerHistoryAfter(chat_history)
    /\ UNCHANGED << resume, yieldsLeft, events, origin, closeRequested,
                    usageSum, orchContent, delivered, gatewayFailure, routeResult >>

\* orchestrator.py:151-199: the loop takes the next item and translates it
FetchItem ==
    /\ UNCHANGED auxVars
    /\ pc = "loop"
    /\ yieldsLeft = << >>
    /\ \E o \in AgentOutcomes(agent) :
        /\ o.kind = "item"
        /\ agent' = o.next
        /\ yieldsLeft' = Translate(o.item, current_agent)
        /\ current_agent' =
               IF o.item.mode = "messages" THEN NextAgent(o.item.tags, current_agent)
               ELSE current_agent
        /\ total_input_tokens' =
               IF o.item.mode = "messages"
               THEN NextTotal(total_input_tokens, o.item.usage, o.item.usage.input_tokens)
               ELSE total_input_tokens
        /\ total_output_tokens' =
               IF o.item.mode = "messages"
               THEN NextTotal(total_output_tokens, o.item.usage, o.item.usage.output_tokens)
               ELSE total_output_tokens
        /\ usageSum' =
               [input_tokens |-> usageSum.input_tokens + o.item.usage.input_tokens,
                output_tokens |-> usageSum.output_tokens + o.item.usage.output_tokens]
        /\ orchContent' =
               IF o.item.mode = "messages" /\ o.item.content # << >>
                  /\ "orchestrator" \in Range(o.item.tags)
               THEN Append(orchContent, o.item.content)
               ELSE orchContent
        /\ delivered' = [requested |-> delivered.requested + o.requested,
                         completed |-> delivered.completed + o.completed,
                         hidden |-> delivered.hidden
                             + (IF o.item.mode = "messages" /\ o.item.content # << >>
                                   /\ "orchestrator" \notin Range(o.item.tags)
                                THEN 1 ELSE 0)]
        /\ gatewayFailure' = IF o.fail.any THEN o.fail ELSE gatewayFailure
    /\ UNCHANGED << chat_history, agentStream, pc, resume, events, origin, raised,
                    closeRequested, routeResult >>

\* a loop whose end is the end of the generator: no metadata is yielded
StreamExhaustedNoMetadata ==
    /\ UNCHANGED auxVars
    /\ pc = "loop"
    /\ yieldsLeft = << >>
    /\ \E o \in AgentOutcomes(agent) : o.kind = "stop"
    /\ agentStream' = "closed"
    /\ pc' = "done"
    /\ UNCHANGED << chat_history, agent, resume, yieldsLeft, events, origin,
                    current_agent, total_input_tokens, total_output_tokens, raised,
                    closeRequested, usageSum, orchContent, delivered, gatewayFailure,
                    routeResult >>

\* orchestrator.py:151: the agent stream is exhausted, the loop ends
StreamExhausted ==
    /\ UNCHANGED auxVars
    /\ pc = "loop"
    /\ yieldsLeft = << >>
    /\ \E o \in AgentOutcomes(agent) : o.kind = "stop"
    /\ agentStream' = "closed"
    /\ pc' = "meta"
    /\ UNCHANGED << chat_history, agent, resume, yieldsLeft, events, origin,
                    current_agent, total_input_tokens, total_output_tokens, raised,
                    closeRequested, usageSum, orchContent, delivered, gatewayFailure,
                    routeResult >>

\* orchestrator.py:151, 208: pulling the next item raises
AgentRaises ==
    /\ UNCHANGED auxVars
    /\ pc = "loop"
    /\ yieldsLeft = << >>
    /\ \E o \in AgentOutcomes(agent) :
        /\ o.kind = "raise"
        /\ raised' = [o.exc EXCEPT !.at = Len(events)]
        /\ pc' = Propagate(o.exc.cls)
    /\ agentStream' = "closed"
    /\ UNCHANGED << chat_history, agent, resume, yieldsLeft, events, origin,
                    current_agent, total_input_tokens, total_output_tokens,
                    closeRequested, usageSum, orchContent, delivered, gatewayFailure,
                    routeResult >>

\* orchestrator.py:165, 168, 175, 177, 192, 199: the generator yields and suspends
YieldEvent ==
    /\ UNCHANGED auxVars
    /\ pc = "loop"
    /\ yieldsLeft # << >>
    /\ events' = Emit(events, Head(yieldsLeft))
    /\ origin' = Emit(origin, Origin)
    /\ yieldsLeft' = Tail(yieldsLeft)
    /\ pc' = "suspended"
    /\ resume' = "loop"
    /\ UNCHANGED << chat_history, agent, agentStream, current_agent, total_input_tokens,
                    total_output_tokens, raised, closeRequested, usageSum, orchContent,
                    delivered, gatewayFailure, routeResult >>

\* orchestrator.py:202-206 (the latency is a clock reading and is left out)
YieldMetadata ==
    /\ UNCHANGED auxVars
    /\ pc = "meta"
    /\ events' = Emit(events, Ev("metadata", << >>, total_input_tokens, total_output_tokens))
    /\ origin' = Emit(origin, Origin)
    /\ pc' = "suspended"
    /\ resume' = "afterMeta"
    /\ UNCHANGED << chat_history, agent, agentStream, yieldsLeft, current_agent,
                    total_input_tokens, total_output_tokens, raised, closeRequested,
                    usageSum, orchContent, delivered, gatewayFailure, routeResult >>

\* orchestrator.py:208-210
YieldApology ==
    /\ UNCHANGED auxVars
    /\ pc = "handler"
    /\ events' = Emit(events, Content(StreamApology(raised.detail)))
    /\ origin' = Emit(origin, Origin)
    /\ pc' = "suspended"
    /\ resume' = "afterApology"
    /\ UNCHANGED << chat_history, agent, agentStream, yieldsLeft, current_agent,
                    total_input_tokens, total_output_tokens, raised, closeRequested,
                    usageSum, orchContent, delivered, gatewayFailure, routeResult >>

\* the consumer pulls the next event: the generator resumes after its yield, and
\* returns when the yield was its last statement
Resume ==
    /\ UNCHANGED auxVars
    /\ pc = "suspended"
    /\ pc' = IF resume = "loop" THEN "loop" ELSE "done"
    /\ UNCHANGED << chat_history, agent, agentStream, resume, yieldsLeft, events, origin,
                    current_agent, total_input_tokens, total_output_tokens, raised,
                    closeRequested, usageSum, orchContent, delivered, gatewayFailure,
                    routeResult >>

\* the consumer closes the generator: GeneratorExit is raised at the yield it is
\* suspended at (inside the try block unless the yield is the handler's), the frame
\* is left and its reference to the agent stream dropped
Close ==
    /\ UNCHANGED auxVars
    /\ pc \in {"created", "suspended"}
    /\ closeRequested' = TRUE
    /\ IF pc = "suspended" /\ resume # "afterApology" /\ StreamCatches("GeneratorExit")
       THEN /\ pc' = "handler"
            /\ raised' = [cls |-> "GeneratorExit", detail |-> << >>, at |-> Len(events)]
       ELSE /\ pc' = "closed"
            /\ UNCHANGED raised
    /\ agentStream' = IF agentStream = "open" THEN "closed" ELSE agentStream
    /\ UNCHANGED << chat_history, agent, resume, yieldsLeft, events, origin,
                    current_agent, total_input_tokens, total_output_tokens, usageSum,
                    orchContent, delivered, gatewayFailure, routeResult >>

\* orchestrator.py:107-130: route_query for the same query, history and run, called
\* once the stream has been consumed
RouteQuery ==
    /\ UNCHANGED auxVars
    /\ routeResult = NoResult
    /\ pc \in {"done", "raisedOut"}
    /\ routeResult' = RouteOutcome(raised, agent.msgs)
    /\ chat_history' = CallerHistoryAfter(chat_history)
    /\ UNCHANGED << agent, agentStream, pc, resume, yieldsLeft, events,
                    origin, current_agent, total_input_tokens, total_output_tokens,
                    raised, closeRequested, usageSum, orchContent, delivered,
                    gatewayFailure >>

Next ==
    \/ StartStream
    \/ FetchItem
    \/ StreamExhausted
    \/ AgentRaises
    \/ YieldEvent
    \/ YieldMetadata
    \/ YieldApology
    \/ Resume
    \/ Close
    \/ RouteQuery

Spec == Init /\ [][Next]_vars

\* ------------------------------------------------------------------ reading a run
\* the payloads of the events of one kind, in emission order
RECURSIVE TextsOf(_, _)
TextsOf(evs, kind) ==
    IF evs = << >> THEN << >>
    ELSE (IF Head(evs).kind = kind THEN << Head(evs).text >> ELSE << >>)
         \o TextsOf(Tail(evs), kind)

\* the thoughts that open with a given literal
ThoughtsWith(evs, literal) ==
    { i \in DOMAIN evs : evs[i].kind = "thought" /\ evs[i].text[1] = literal }

MetadataAt(evs) == { i \in DOMAIN evs : evs[i].kind = "metadata" }
ContentAt(evs) == { i \in DOMAIN evs : evs[i].kind = "content" }

\* the stream was consumed to exhaustion
Exhausted == pc = "done"

\* ------------------------------------------------------------------ claims

\* C1: route_query never raises to its caller: when history conversion or the agent
\* invocation raises, it returns "Sorry, there was a technical issue: " followed by
\* the exception detail; otherwise it returns the content of the last message of the
\* agent's final state.
C1_RouteNeverRaises ==
    routeResult # NoResult =>
        /\ routeResult.kind = "returned"
        /\ raised.cls # "none" =>
               routeResult.text = <<"Sorry, there was a technical issue: ">> \o raised.detail
        /\ raised.cls = "none" =>
               routeResult.text = agent.msgs[Len(agent.msgs)].content

\* a route_query call whose agent invocation raised after the history was converted
C1_Witness ==
    /\ routeResult # NoResult
    /\ raised.cls = "RuntimeError"
    /\ agent.phase = "model"

\* C2: stream_query never raises into the consumer: when an exception is raised while
\* the consumer is pulling (in the history conversion or at any step of the agent
\* stream, also after events were emitted), the next event is one content event with
\* the apology embedding the exception detail, and the sequence then ends.
C2_StreamEndsWithApology ==
    /\ pc # "raisedOut"
    /\ raised.cls # "none" =>
        /\ pc \in {"handler", "suspended", "done", "closed"}
        /\ pc = "handler" => Len(events) = raised.at
        /\ pc # "handler" =>
            /\ Len(events) = raised.at + 1
            /\ events[Len(events)] =
                   Content(<<"Sorry, there was a technical issue during streaming: ">>
                           \o raised.detail)
        /\ pc = "suspended" => resume = "afterApology"

\* the agent stream raised after events had been emitted, and the consumer pulled on
C2_Witness ==
    /\ raised.cls # "none"
    /\ raised.at > 0
    /\ pc = "done"

C4_StreamEqualsRoute ==
    (Exhausted /\ routeResult.kind = "returned") =>
        Concat(TextsOf(events, "content")) = routeResult.text

\* a tool thought: the start or the completion of a tool call
ToolThought(e) ==
    e.kind = "thought" /\ e.text[1] \in {"Using tool: ", "Tool finished. Output: "}

\* C5: stream_query translates the agent stream item by item in arrival order: the
\* received events are in the order of the items they come from, so the thoughts of a
\* tool call of one model turn precede every content fragment of a later turn.
C5_ArrivalOrder ==
    /\ \A i, j \in DOMAIN events : i < j => origin[i].item <= origin[j].item
    /\ \A i, j \in DOMAIN events :
           (ToolThought(events[i]) /\ events[j].kind = "content"
                /\ origin[j].turn > origin[i].turn) => i < j

\* a tool-finished thought followed by a content fragment of the next model turn
C5_Witness ==
    \E i, j \in DOMAIN events :
        /\ i < j
        /\ events[i].kind = "thought" /\ events[i].text[1] = "Tool finished. Output: "
        /\ events[j].kind = "content"
        /\ origin[j].turn > origin[i].turn

\* C6: outside the error path the content events are exactly the tokens with
\* non-empty content whose tags include "orchestrator", in order; tokens tagged only
\* sql_agent or rag_agent, and untagged tokens, produce no content event.
C6_ContentOnlyFromOrchestrator ==
    TextsOf(IF raised.cls = "none" THEN events \o yieldsLeft
            ELSE SubSeq(events, 1, raised.at), "content") = orchContent

\* a stream consumed to exhaustion that carried text of the orchestrator and text
\* that was not the orchestrator's
C6_Witness ==
    /\ Exhausted
    /\ raised.cls = "none"
    /\ delivered.hidden > 0
    /\ orchContent # << >>

C8_NothingAfterClose ==
    /\ [][closeRequested => events' = events]_vars
    /\ [](closeRequested => (pc = "closed" /\ agentStream # "open"))

\* the consumer closed the generator in the middle of the agent stream
C8_Witness ==
    /\ closeRequested
    /\ resume = "loop"
    /\ agent.phase = "tools"
    /\ events # << >>

\* C9: a thought is emitted for every tool call a model turn requests and for every
\* tool invocation that completes, also when the results of several tool calls
\* arrive in one state update.
C9_ThoughtPerToolEvent ==
    (Exhausted /\ raised.cls = "none") =>
        /\ Cardinality(ThoughtsWith(events, "Using tool: ")) = delivered.requested
        /\ Cardinality(ThoughtsWith(events, "Tool finished. Output: ")) = delivered.completed

\* the literals that open a fixed-format error answer
ApologyLiterals ==
    { "Sorry, there was a technical issue: ",
      "Sorry, there was a technical issue while searching: ",
      "Database error: " }

\* C10: when a call to a gateway failed, the answer route_query returns is the
\* fixed-format string that opens with an apology and embeds the error detail.
C10_GatewayFailureSurfaced ==
    (routeResult.kind = "returned" /\ raised.cls = "none" /\ gatewayFailure.any) =>
        /\ routeResult.text # << >>
        /\ routeResult.text[1] \in ApologyLiterals
        /\ Tail(routeResult.text) = gatewayFailure.detail

\* ================================================================== the history
\* the elements a caller's list holds: mappings with a role that is kept, with
\* another role and without content, message objects of three kinds, and an
\* object that is neither
HistoryElems ==
    { DictElem("user", TRUE, <<"x">>), DictElem("assistant", TRUE, <<"y">>),
      DictElem("system", TRUE, <<"x">>), DictElem("user", FALSE, << >>),
      MsgElem(HumanMessage(<<"x">>)), MsgElem(AIMessage(<<"y">>, << >>)),
      MsgElem(SystemMessage(<<"x">>)), OtherElem }

\* the histories a caller passes: None, a text (the empty one too), a list
HistoryDomain ==
    { [form |-> "none", blob |-> << >>, elems |-> << >>] }
    \cup { [form |-> "str", blob |-> b, elems |-> << >>] : b \in { << >>, <<"x">> } }
    \cup { [form |-> "list", blob |-> << >>, elems |-> es] :
             es \in UNION { [1..n -> HistoryElems] : n \in 0..MaxHistory } }

\* the list of message objects a conversion returned, passed as a history
AsHistory(msgs) ==
    [form |-> "list", blob |-> << >>,
     elems |-> [i \in DOMAIN msgs |-> MsgElem(msgs[i])]]

InitHistory ==
    /\ chat_history \in HistoryDomain
    /\ StreamIdle
    /\ AuxIdle

\* orchestrator.py:78-99: _convert_history on the caller's history
ConvertOnce ==
    /\ ~norm.first.done
    /\ norm' = [norm EXCEPT !.first = Ran(ConvertHistory(chat_history))]
    /\ UNCHANGED << appVars, chat_history, streamVars, sessions, shared, retrieval >>

\* orchestrator.py:78-99: _convert_history on the list it returned
ConvertAgain ==
    /\ norm.first.done
    /\ norm.first.exc.cls = "none"
    /\ ~norm.second.done
    /\ norm' = [norm EXCEPT !.second = Ran(ConvertHistory(AsHistory(norm.first.value)))]
    /\ UNCHANGED << appVars, chat_history, streamVars, sessions, shared, retrieval >>

\* orchestrator.py:111-115: route_query up to the message list it hands to the agent
RouteStart ==
    /\ ~norm.route.done
    /\ norm' = [norm EXCEPT !.route = Ran(BuildMessages(chat_history))]
    /\ chat_history' = CallerHistoryAfter(chat_history)
    /\ UNCHANGED << appVars, streamVars, sessions, shared, retrieval >>

\* orchestrator.py:101-105, 111-115: route_request with a history text
RouteRequest ==
    /\ chat_history.form = "str"
    /\ ~norm.request.done
    /\ norm' = [norm EXCEPT
                  !.request = Ran(BuildMessages(RouteRequestHistory(chat_history.blob)))]
    /\ UNCHANGED << appVars, chat_history, streamVars, sessions, shared, retrieval >>

NextHistory ==
    \/ ConvertOnce
    \/ ConvertAgain
    \/ RouteStart
    \/ RouteRequest
    \/ StartStream

SpecHistory == InitHistory /\ [][NextHistory]_vars

\* (C11) Converting the list a conversion returned gives that list again, element
\* by element, for every history whose conversion returned: a list of mappings,
\* a list of message objects, a text, None.
C11_ConvertIdempotent ==
    norm.second.done =>
        /\ norm.second.exc = NoExc
        /\ Len(norm.second.value) = Len(norm.first.value)
        /\ \A i \in DOMAIN norm.first.value : norm.second.value[i] = norm.first.value[i]

\* a list that starts with a mapping and holds a message object was converted twice
C11_Witness ==
    /\ norm.second.done
    /\ chat_history.form = "list"
    /\ Len(norm.first.value) >= 2
    /\ chat_history.elems[1].shape = "dict"
    /\ \E i \in DOMAIN chat_history.elems : chat_history.elems[i].shape = "message"

\* (C12) Every turn of the list built by _convert_history is a user turn or an
\* assistant turn, whatever the elements of the input are.
C12_OnlyUserAndAssistant ==
    norm.first.done =>
        \A i \in DOMAIN norm.first.value : norm.first.value[i].type \in {"human", "ai"}

\* the elements of a list that the conversion keeps
Retained(e) ==
    \/ e.shape = "dict" /\ e.role \in {"user", "assistant"}
    \/ e.shape = "message"

\* the turn a kept element stands for
TurnOf(e) ==
    IF e.shape = "message" THEN e.msg
    ELSE [type |-> IF e.role = "user" THEN "human" ELSE "ai",
          content |-> e.content, tool_calls |-> << >>]

\* the kept elements of a list in their order, then the query
ExpectedMessages(h) ==
    LET kept == SelectSeq(h.elems, Retained)
    IN  [k \in 1..Len(kept) |-> TurnOf(kept[k])] \o << HumanMessage(UserQuery) >>

\* (C13) The message list route_query and stream_query hand to the agent is the
\* kept turns of the history in their original order, equal turns kept as often
\* as they occur, followed by the current query as the one last element.
C13_HandedInOrder ==
    chat_history.form # "str" =>
        /\ (norm.route.done /\ norm.route.exc = NoExc) =>
               norm.route.value = ExpectedMessages(chat_history)
        /\ agent.phase # "idle" => agent.msgs = ExpectedMessages(chat_history)

\* both calls handed over a history of three kept elements, the first and the
\* third of them equal and the second another one
C13_Witness ==
    /\ norm.route.done
    /\ agent.phase # "idle"
    /\ chat_history.form = "list"
    /\ Len(chat_history.elems) = 3
    /\ \A i \in 1..3 : Retained(chat_history.elems[i])
    /\ chat_history.elems[1] = chat_history.elems[3]
    /\ TurnOf(chat_history.elems[1]) # TurnOf(chat_history.elems[2])
    /\ Len(agent.msgs) = 4

\* the one user turn a text becomes
ContextTurn(text) ==
    [type |-> "human", content |-> <<"Previous conversation context:\n">> \o text,
     tool_calls |-> << >>]

\* (C14) A history given as one text becomes exactly one user turn whose content
\* is the context built from the text, for the empty text too, and route_request
\* hands that turn and then the query to the agent.
C14_TextIsOneUserTurn ==
    chat_history.form = "str" =>
        /\ norm.first.done =>
               (norm.first.exc = NoExc
                /\ norm.first.value = << ContextTurn(chat_history.blob) >>)
        /\ norm.request.done =>
               (norm.request.exc = NoExc
                /\ norm.request.value =
                       << ContextTurn(chat_history.blob), HumanMessage(UserQuery) >>)

\* the empty text was converted and was passed through route_request
C14_Witness ==
    /\ chat_history.form = "str"
    /\ chat_history.blob = << >>
    /\ norm.first.done
    /\ norm.request.done

\* (C15) No step of route_query or stream_query changes the history object of
\* the caller, when the call succeeds and when it fails: the object has the
\* same elements in the same order before and after every step.
C15_CallerHistoryUntouched == [][chat_history' = chat_history]_vars

\* both calls are over for a caller's list of two turns, and the run had raised
C15_Witness ==
    /\ pc = "done"
    /\ routeResult # NoResult
    /\ raised.cls # "none"
    /\ chat_history.form = "list"
    /\ Len(chat_history.elems) = 2

\* ================================================================== the gateways
\* the tools the model turns of the run have requested
RequestedTools ==
    UNION { Range(agent.msgs[i].tool_calls) : i \in DOMAIN agent.msgs }

\* the positions of the tool results in the run's messages
ToolResultsAt == { i \in DOMAIN agent.msgs : agent.msgs[i].type = "tool" }

C18_DefaultsToDocuments ==
    (routeResult # NoResult /\ raised.cls # "none" /\ agent.phase = "model"
         /\ agent.turn = 1) =>
        /\ delivered.completed >= 1
        /\ routeResult.text # RouteApology(raised.detail)
        /\ ThoughtsWith(events, "Using tool: ") # {}

\* ================================================================== two calls
\* usage another model call reports
OtherUsage == [reported |-> TRUE, input_tokens |-> 7, output_tokens |-> 3]

\* the items the stream of a call gives
CallItems ==
    { TokenItem(<<"orchestrator">>, <<"a">>, NoUsage),
      TokenItem(<<"sql_agent">>, <<"a">>, SomeUsage),
      TokenItem(<<"rag_agent">>, << >>, OtherUsage),
      UpdateItem(<< ToolMessage(<<"r">>) >>) }

\* all calls keeping their names in the frame of the first
FrameOfFirst(c) == 1

\* orchestrator.py:139-142: start_time, the totals and current_agent are local
\* names of the generator function, so every call has a frame of its own
FrameOf(c) == c

\* orchestrator.py:185-195: the local names after an item
StepLocals(item, l) ==
    IF item.mode # "messages" THEN l
    ELSE [current_agent |-> NextAgent(item.tags, l.current_agent),
          total_input_tokens |->
              NextTotal(l.total_input_tokens, item.usage, item.usage.input_tokens),
          total_output_tokens |->
              NextTotal(l.total_output_tokens, item.usage, item.usage.output_tokens)]

InitSessions ==
    /\ chat_history = [form |-> "none", blob |-> << >>, elems |-> << >>]
    /\ StreamIdle
    /\ AuxIdle

\* orchestrator.py:139-156: call c runs up to its loop
CallStart(c) ==
    /\ sessions[c].pc = "created"
    /\ LET s1 == [sessions EXCEPT ![FrameOf(c)].locals = LocalsInit]
       IN  sessions' = [s1 EXCEPT ![c].pc = "loop"]
    /\ UNCHANGED << appVars, chat_history, streamVars, norm, shared, retrieval >>

\* orchestrator.py:151-199: call c takes an item from its stream and yields the
\* events of it
CallItem(c) ==
    /\ sessions[c].pc = "loop"
    /\ Len(sessions[c].items) < MaxCallItems
    /\ \E item \in CallItems :
        LET l == sessions[FrameOf(c)].locals
            s1 == [sessions EXCEPT ![FrameOf(c)].locals = StepLocals(item, l)]
        IN  sessions' = [s1 EXCEPT ![c].items = Append(@, item),
                                   ![c].events = @ \o Translate(item, l.current_agent)]
    /\ UNCHANGED << appVars, chat_history, streamVars, norm, shared, retrieval >>

\* orchestrator.py:202-206: the stream of call c is exhausted
CallEnds(c) ==
    /\ sessions[c].pc = "loop"
    /\ LET l == sessions[FrameOf(c)].locals
       IN  sessions' = [sessions EXCEPT
               ![c].pc = "done",
               ![c].events = Append(@, Ev("metadata", << >>, l.total_input_tokens,
                                          l.total_output_tokens))]
    /\ UNCHANGED << appVars, chat_history, streamVars, norm, shared, retrieval >>

\* orchestrator.py:208-210: the stream of call c raises
CallRaises(c) ==
    /\ sessions[c].pc = "loop"
    /\ \E e \in AgentExceptions :
        sessions' = [sessions EXCEPT
            ![c].pc = "failed",
            ![c].events = Append(@, Content(StreamApology(e.detail)))]
    /\ UNCHANGED << appVars, chat_history, streamVars, norm, shared, retrieval >>

NextSessions ==
    \E c \in Calls :
        \/ CallStart(c)
        \/ CallItem(c)
        \/ CallEnds(c)
        \/ CallRaises(c)

SpecSessions == InitSessions /\ [][NextSessions]_vars

RECURSIVE AloneRun(_, _, _)
\* the local names and the events of a call that takes these items with no
\* other call in progress
AloneRun(items, l, evs) ==
    IF items = << >> THEN [locals |-> l, events |-> evs]
    ELSE AloneRun(Tail(items), StepLocals(Head(items), l),
                  evs \o Translate(Head(items), l.current_agent))

\* the events of a call that is alone, by the items it took and the way it ended
AloneEvents(call) ==
    LET alone == AloneRun(call.items, LocalsInit, << >>)
    IN  alone.events
        \o (IF call.pc = "done"
            THEN << Ev("metadata", << >>, alone.locals.total_input_tokens,
                       alone.locals.total_output_tokens) >>
            ELSE IF call.pc = "failed"
                 THEN << Content(StreamApology(<<"e2">>)) >>
                 ELSE << >>)

\* what each call in progress has yielded and tracked is what it would alone
CallsAsAlone ==
    \A c \in Calls :
        sessions[c].pc # "created" =>
            /\ sessions[c].events = AloneEvents(sessions[c])
            /\ sessions[FrameOf(c)].locals
                   = AloneRun(sessions[c].items, LocalsInit, << >>).locals

\* (C19) When two calls of stream_query on one Orchestrator are interleaved in
\* any order, the events, the tracked agent and the token totals of each call
\* are those it would have alone with its own items, and no step of a call
\* writes an attribute of the Orchestrator.
C19_CallsIndependent == [](CallsAsAlone) /\ [][shared' = shared]_vars

\* both calls are in their loops, each has taken an item, and they track
\* different agents and totals
C19_Witness ==
    /\ sessions[1].pc = "loop"
    /\ sessions[2].pc = "loop"
    /\ Len(sessions[1].items) >= 1
    /\ Len(sessions[2].items) >= 1
    /\ sessions[1].locals.current_agent = "sql_agent"
    /\ sessions[2].locals.current_agent = "rag_agent"
    /\ sessions[1].locals.total_input_tokens # sessions[2].locals.total_input_tokens

\* ================================================================== retrieve_documents
\* the payloads of the points of the collection: a mapping that may hold a text,
\* a content, both or neither, and always holds a source
Payload(hasText, hasContent) ==
    [hasText |-> hasText, text |-> IF hasText THEN "t" ELSE "",
     hasContent |-> hasContent, content |-> IF hasContent THEN "c" ELSE "",
     source |-> "s"]

Payloads == { Payload(ht, hc) : ht \in BOOLEAN, hc \in BOOLEAN }

\* rag_agent.py:100  str(hit.payload)
StrOfPayload(p) ==
    "{" \o (IF p.hasText THEN "'text': '" \o p.text \o "', " ELSE "")
        \o (IF p.hasContent THEN "'content': '" \o p.content \o "', " ELSE "")
        \o "'source': '" \o p.source \o "'}"

\* rag_agent.py:100  payload.get("text", payload.get("content", str(payload)))
PageContent(p) ==
    IF p.hasText THEN p.text
    ELSE IF p.hasContent THEN p.content
    ELSE StrOfPayload(p)

\* rag_agent.py:100-102
Document(p) == [page_content |-> PageContent(p), metadata |-> p]

RECURSIVE DocumentsNewestFirst(_)
\* documents inserted at the front of the list
DocumentsNewestFirst(hits) ==
    IF hits = << >> THEN << >>
    ELSE Append(DocumentsNewestFirst(Tail(hits)), Document(Head(hits)))

RECURSIVE Documents(_)
\* rag_agent.py:98-102: one document is appended for each hit
Documents(hits) ==
    IF hits = << >> THEN << >>
    ELSE << Document(Head(hits)) >> \o Documents(Tail(hits))

\* the points query_points returns: the first limit points of the ranking
QueryPoints(ranking, limit) ==
    SubSeq(ranking, 1, IF Len(ranking) < limit THEN Len(ranking) ELSE limit)

InitRetrieve ==
    /\ chat_history = [form |-> "none", blob |-> << >>, elems |-> << >>]
    /\ StreamIdle
    /\ RouterAuxIdle
    /\ GatewayIdle
    /\ InterviewIdle
    /\ FilesIdle
    /\ StartupIdle
    /\ RequestIdle
    /\ \E ranking \in UNION { [1..n -> Payloads] : n \in 0..MaxHits }, limit \in 1..MaxHits :
           retrieval = [pc |-> "called", ranking |-> ranking, limit |-> limit,
                        hits |-> << >>, documents |-> << >>, failed |-> FALSE]

\* rag_agent.py:104-106: where the call is after an exception of this class
AfterRaise(cls) == IF GatewayCatches(cls) THEN "returned" ELSE "raisedOut"

\* rag_agent.py:90, 104-106: the query is embedded, or the embedding raises
EmbedQuery ==
    /\ retrieval.pc = "called"
    /\ \E cls \in {"none"} \cup ExceptionClasses :
           retrieval' = IF cls = "none" THEN [retrieval EXCEPT !.pc = "embedded"]
                        ELSE [retrieval EXCEPT !.pc = AfterRaise(cls), !.failed = TRUE]
    /\ UNCHANGED << appVars, chat_history, streamVars, norm, sessions, shared >>

\* rag_agent.py:92-96, 104-106: the store returns its points, or raises
SearchStore ==
    /\ retrieval.pc = "embedded"
    /\ \E cls \in {"none"} \cup ExceptionClasses :
           retrieval' =
               IF cls = "none"
               THEN [retrieval EXCEPT !.pc = "searched",
                                      !.hits = QueryPoints(retrieval.ranking, retrieval.limit)]
               ELSE [retrieval EXCEPT !.pc = AfterRaise(cls), !.failed = TRUE]
    /\ UNCHANGED << appVars, chat_history, streamVars, norm, sessions, shared >>

\* rag_agent.py:98-104: the documents are built and returned
BuildDocuments ==
    /\ retrieval.pc = "searched"
    /\ retrieval' = [retrieval EXCEPT !.pc = "returned",
                                      !.documents = Documents(retrieval.hits)]
    /\ UNCHANGED << appVars, chat_history, streamVars, norm, sessions, shared >>

\* what the inner agent loop of a gateway ends with: its answer, or an exception
InnerOutcomes ==
    { [exc |-> NoExc, val |-> <<"r">>] }
    \cup { [exc |-> [cls |-> c, detail |-> <<"e2">>, at |-> 0], val |-> << >>]
            : c \in ExceptionClasses }

\* sql_agent.py:108-118, rag_agent.py:109-122: what run gives its caller
GatewayRun(name, o) ==
    IF o.exc.cls = "none"
    THEN [kind |-> "returned", text |-> ToolFunc(name, [ok |-> TRUE, val |-> o.val])]
    ELSE IF GatewayCatches(o.exc.cls)
         THEN [kind |-> "returned",
               text |-> ToolFunc(name, [ok |-> FALSE, val |-> o.exc.detail])]
         ELSE [kind |-> "raised", text |-> o.exc.detail]

\* sql_agent.py:108-112, rag_agent.py:109-117: run is called and invokes its agent
GatewayInvoke ==
    /\ gateway.pc = "idle"
    /\ \E name \in ToolNames :
           gateway' = [pc |-> "invoked", tool |-> name, exc |-> NoExc, result |-> NoResult]
    /\ UNCHANGED << chat_history, streamVars, norm, sessions, shared, retrieval,
                    interview, files, startup, request >>

\* sql_agent.py:113-118, rag_agent.py:118-122: the agent loop ends and run returns
GatewayEnds ==
    /\ gateway.pc = "invoked"
    /\ \E o \in InnerOutcomes :
           gateway' = [gateway EXCEPT !.pc = "done", !.exc = o.exc,
                                      !.result = GatewayRun(gateway.tool, o)]
    /\ UNCHANGED << chat_history, streamVars, norm, sessions, shared, retrieval,
                    interview, files, startup, request >>

NextRetrieve ==
    \/ EmbedQuery
    \/ SearchStore
    \/ BuildDocuments
    \/ GatewayInvoke
    \/ GatewayEnds

SpecRetrieve == InitRetrieve /\ [][NextRetrieve]_vars

C21_NothingRaisesPast ==
    /\ retrieval.pc # "raisedOut"
    /\ (retrieval.pc = "returned" /\ retrieval.failed) => retrieval.documents = << >>
    /\ gateway.pc = "done" =>
           /\ gateway.result.kind = "returned"
           /\ (gateway.exc.cls # "none" /\ gateway.tool = "sql_job_stats") =>
                  gateway.result.text = <<"Database error: ">> \o gateway.exc.detail
           /\ (gateway.exc.cls # "none" /\ gateway.tool = "rag_career_advice") =>
                  gateway.result.text =
                      <<"Sorry, there was a technical issue while searching: ">>
                          \o gateway.exc.detail

\* the loop of SQLAgent.run raised a RuntimeError and the store of a retrieval failed
C21_Witness ==
    /\ gateway.pc = "done"
    /\ gateway.tool = "sql_job_stats"
    /\ gateway.exc.cls = "RuntimeError"
    /\ retrieval.pc = "returned"
    /\ retrieval.failed
    /\ retrieval.hits = << >>

\* ================================================================== the snippet
\* a tool output of n characters, all "a" but an "x" at position k
LongOutput(n, k) == [i \in 1..n |-> IF i = k THEN "x" ELSE "a"]

\* the lengths and the positions around the limit
NearLimit == (SnippetLimit - SnippetWindow)..(SnippetLimit + SnippetWindow)

\* a gateway has returned an output whose length is near the limit
InitSnippet ==
    /\ chat_history = [form |-> "none", blob |-> << >>, elems |-> << >>]
    /\ StreamIdle
    /\ RouterAuxIdle
    /\ retrieval = NoRetrieval
    /\ InterviewIdle
    /\ FilesIdle
    /\ StartupIdle
    /\ RequestIdle
    /\ \E name \in ToolNames, n \in NearLimit, k \in NearLimit :
           gateway = [pc |-> "done", tool |-> name, exc |-> NoExc,
                      result |-> [kind |-> "returned", text |-> LongOutput(n, k)]]

\* orchestrator.py:151-168: call c takes the state update that holds the
\* ToolMessage of the gateway's output and yields the thought of it
CallToolUpdate(c) ==
    /\ sessions[c].pc = "loop"
    /\ sessions[c].items = << >>
    /\ LET item == UpdateItem(<< ToolMessage(gateway.result.text) >>)
           l == sessions[FrameOf(c)].locals
           s1 == [sessions EXCEPT ![FrameOf(c)].locals = StepLocals(item, l)]
       IN  sessions' = [s1 EXCEPT ![c].items = Append(@, item),
                                  ![c].events = @ \o Translate(item, l.current_agent)]
    /\ UNCHANGED << appVars, chat_history, streamVars, norm, shared, retrieval >>

NextSnippet ==
    \E c \in Calls :
        \/ CallStart(c)
        \/ CallToolUpdate(c)
        \/ CallEnds(c)

SpecSnippet == InitSnippet /\ [][NextSnippet]_vars

\* the text a tool-finished thought shows after its heading
ShownOutput(e) == SubSeq(e.text, 2, Len(e.text))

\* (C22) The tool-finished thought shows an output of more than 300 characters
\* as its first 300 characters followed by "...", and an output of 300
\* characters or fewer as it is, without the dots.
C22_SnippetBound ==
    \A c \in Calls :
        sessions[c].items # << >> =>
            LET out == gateway.result.text
                e == sessions[c].events[1]
                shown == ShownOutput(e)
            IN  /\ e.kind = "thought"
                /\ e.text[1] = "Tool finished. Output: "
                /\ Len(out) > 300 =>
                       /\ Len(shown) = 301
                       /\ \A i \in 1..300 : shown[i] = out[i]
                       /\ shown[301] = "..."
                /\ Len(out) <= 300 => shown = out

\* call 1 showed an output of 301 characters whose last one, the "x", is cut off
C22_Witness ==
    /\ sessions[1].items # << >>
    /\ Len(gateway.result.text) = 301
    /\ gateway.result.text[301] = "x"
    /\ Len(sessions[1].events[1].text) = 302

\* ================================================================== the speaker
SubAgents == {"sql_agent", "rag_agent"}

\* the tags the tokens of a run carry: none, one agent's, another name, and a
\* sub-agent's followed by the orchestrator's
TokenTags ==
    { << >>, <<"orchestrator">>, <<"sql_agent">>, <<"rag_agent">>, <<"seq:step:1">>,
      <<"sql_agent", "orchestrator">> }

InitTracking ==
    /\ chat_history = [form |-> "none", blob |-> << >>, elems |-> << >>]
    /\ StreamIdle
    /\ AuxIdle

\* orchestrator.py:179-199: call c takes a token from its stream
CallToken(c) ==
    /\ sessions[c].pc = "loop"
    /\ Len(sessions[c].items) < MaxTokens
    /\ \E tags \in TokenTags :
        LET item == TokenItem(tags, <<"a">>, NoUsage)
            l == sessions[FrameOf(c)].locals
            s1 == [sessions EXCEPT ![FrameOf(c)].locals = StepLocals(item, l)]
        IN  sessions' = [s1 EXCEPT ![c].items = Append(@, item),
                                   ![c].events = @ \o Translate(item, l.current_agent)]
    /\ UNCHANGED << appVars, chat_history, streamVars, norm, shared, retrieval >>

NextTracking ==
    \/ CallStart(1)
    \/ CallToken(1)
    \/ CallEnds(1)

SpecTracking == InitTracking /\ [][NextTracking]_vars

\* the "starts processing" thoughts for agent a among these events
StartsOf(evs, a) ==
    { i \in DOMAIN evs :
        evs[i].kind = "thought" /\ evs[i].text = <<AgentTitle(a), " starts processing...">> }

\* the events call 1 had yielded when it had taken its first n tokens
EventsUpTo(n) == AloneRun(SubSeq(sessions[1].items, 1, n), LocalsInit, << >>).events

\* token n of call 1 made the call announce agent a
Announced(n, a) ==
    Cardinality(StartsOf(EventsUpTo(n), a)) = Cardinality(StartsOf(EventsUpTo(n - 1), a)) + 1

\* the speaker call 1 tracked when it had taken its first n tokens
TrackedUpTo(n) ==
    AloneRun(SubSeq(sessions[1].items, 1, n), LocalsInit, << >>).locals.current_agent

\* token n of call 1 is of another agent than a
OfAnotherAgent(n, a) ==
    LET tags == sessions[1].items[n].tags
    IN  tags # << >> /\ (tags[1] \in SubAgents \ {a} \/ "orchestrator" \in Range(tags))

\* (C23) The tracked speaker of a call starts as orchestrator; a token whose
\* first tag is a sub-agent, the only tag of the token, is announced by one
\* "starts processing" thought when that sub-agent is not the tracked speaker,
\* and is the tracked speaker afterwards; a token tagged orchestrator alone
\* makes orchestrator the tracked speaker.  Two such thoughts for one sub-agent
\* have a token of another agent between them, and consecutive tokens of one
\* sub-agent give at most one.
C23_AgentTracking ==
    LET call == sessions[1]
        n == Len(call.items)
        tracked == call.locals.current_agent
    IN  call.pc # "created" =>
            /\ call.events = EventsUpTo(n) \o (IF call.pc = "done"
                                               THEN << Ev("metadata", << >>, 0, 0) >>
                                               ELSE << >>)
            /\ n = 0 => tracked = "orchestrator"
            /\ \A a \in SubAgents :
                /\ (n > 0 /\ Announced(n, a)) => tracked = a
                /\ (n > 0 /\ call.items[n].tags = << a >>) => tracked = a
                /\ \A i \in 1..n :
                       Announced(i, a) <=>
                           /\ call.items[i].tags # << >>
                           /\ call.items[i].tags[1] = a
                           /\ TrackedUpTo(i - 1) # a
                /\ \A i \in 1..n, j \in 1..n :
                       (i < j /\ Announced(i, a) /\ Announced(j, a)) =>
                           \E k \in (i + 1)..(j - 1) : OfAnotherAgent(k, a)
                /\ \A i \in 1..n, j \in 1..n :
                       (i < j /\ \A k \in i..j : call.items[k].tags = << a >>) =>
                           Cardinality({ k \in i..j : Announced(k, a) }) <= 1
            /\ (n > 0 /\ call.items[n].tags = <<"orchestrator">>) => tracked = "orchestrator"

\* the sql agent was announced, the orchestrator spoke, and the sql agent was
\* announced again
C23_Witness ==
    /\ sessions[1].pc = "loop"
    /\ Len(sessions[1].items) = 3
    /\ Announced(1, "sql_agent")
    /\ sessions[1].items[2].tags = <<"orchestrator">>
    /\ Announced(3, "sql_agent")

\* ================================================================== the interview page
\* the jobs of the dashboard, and the transcripts of the recordings
JobTitles == <<"J1", "J2">>
Transcripts == <<"a1", "a2", "a3", "a4">>

\* app.py:467
OpeningText(job) == <<"You are interviewing for ", JobTitles[job], " at ", "C", ".\n">>
\* app.py:468
OpeningQuestion(job) ==
    <<"Hello! Let's start the interview for the ", JobTitles[job],
      " position. Could you introduce yourself?">>

LogEntry(role, content) == [role |-> role, content |-> content]

\* the session state of a browser session that opened the app: nothing of the
\* interview is stored.  Of the fields, started stands for the keys
\* interview_history_text, current_q, question_count, interview_ended and
\* evaluation_report, which are stored and deleted together; hash 0 and mic 0
\* stand for no hash stored and no recording; rendered is the page the last run
\* drew; asked, evalText, last and opened record what the runs did
NewSession ==
    [page |-> "landing", job |-> 0, rendered |-> "none", micShown |-> FALSE,
     hasLog |-> FALSE, log |-> << >>, started |-> FALSE, text |-> << >>,
     count |-> 0, ended |-> FALSE, report |-> "none",
     hasMax |-> FALSE, max |-> 0, hash |-> 0, mic |-> 0, recs |-> 0,
     asked |-> 0, fails |-> 0, evalText |-> [called |-> FALSE, text |-> << >>],
     last |-> "none", opened |-> "no"]

\* app.py:376-386, 363-365: the keys of the interview are deleted
JobStateDeleted(s) ==
    [s EXCEPT !.hasLog = FALSE, !.log = << >>, !.started = FALSE, !.text = << >>,
              !.count = 0, !.ended = FALSE, !.report = "none", !.hasMax = FALSE, !.max = 0]

\* app.py:229-238: reset_session deletes interview_log and no other key of the
\* interview
SidebarResetState(s) ==
    [s EXCEPT !.page = "landing", !.job = 0, !.hasLog = FALSE, !.log = << >>,
              !.rendered = "none", !.micShown = FALSE, !.mic = 0,
              !.last = "sidebar", !.opened = "pending"]

\* app.py:464-472
InterviewInitialised(s) ==
    LET s1 == IF s.hasLog THEN s ELSE [s EXCEPT !.hasLog = TRUE, !.log = << >>]
    IN  IF s1.started THEN s1
        ELSE [s1 EXCEPT !.started = TRUE, !.text = OpeningText(s.job),
                        !.log = Append(s1.log, LogEntry("assistant", OpeningQuestion(s.job))),
                        !.count = 1, !.ended = FALSE, !.report = "none"]

\* app.py:485-494: the target is the value of the number input while the first
\* question is open
TargetSet(s, w) ==
    LET s1 == IF s.hasMax THEN s ELSE [s EXCEPT !.hasMax = TRUE, !.max = 5]
    IN  IF s1.count = 1 /\ ~s1.ended THEN [s1 EXCEPT !.max = w] ELSE s1

\* an interview that ends only past its target
EndsInterviewPastTarget(count, max) == count > max

\* app.py:539
EndsInterview(count, max) == count >= max

\* app.py:524-556: the recording the recorder holds is processed unless its hash
\* is the stored one; the transcription and the interviewer may raise
AnswerProcessed(s, ok) ==
    IF s.mic = 0 \/ s.hash = s.mic THEN s
    ELSE IF ~ok.transcription THEN [s EXCEPT !.fails = @ + 1, !.last = "raised"]
    ELSE LET user_text == Transcripts[s.mic]
             s1 == [s EXCEPT !.log = Append(@, LogEntry("user", <<user_text>>)),
                             !.last = "answer"]
         IN  IF EndsInterview(s1.count, s1.max)
             THEN [s1 EXCEPT !.ended = TRUE, !.hash = s.mic]
             ELSE IF ~ok.interviewer
                  THEN [s1 EXCEPT !.asked = @ + 1, !.fails = @ + 1, !.last = "raised"]
                  ELSE [s1 EXCEPT !.asked = @ + 1,
                                  !.log = Append(@, LogEntry("assistant", <<"nq">>)),
                                  !.text = @ \o <<"Candidate: ", user_text,
                                                  "\nInterviewer: ", "nq", "\n">>,
                                  !.count = @ + 1, !.hash = s.mic]

\* app.py:558-576: the evaluation is requested with the history text
Evaluated(s, ok) ==
    IF s.report # "none" THEN s
    ELSE LET s1 == [s EXCEPT !.evalText = [called |-> TRUE, text |-> s.text]]
         IN  IF ok.evaluation THEN [s1 EXCEPT !.report = "report"]
             ELSE [s1 EXCEPT !.fails = @ + 1, !.last = "raised"]

\* what the calls of a run do: return, or raise while failures are left
CallResults(s) ==
    { ok \in [transcription : BOOLEAN, interviewer : BOOLEAN, evaluation : BOOLEAN] :
        s.fails < MaxFailures \/ (ok.transcription /\ ok.interviewer /\ ok.evaluation) }

\* the buttons of the workspace that can be pressed: those the last run drew
Buttons(s) ==
    {"none"} \cup (IF s.rendered = "workspace" THEN {"back", "reset"} ELSE {})
             \cup (IF s.rendered = "workspace" /\ s.started /\ ~s.ended THEN {"end"} ELSE {})

\* the value of the recorder in a run: the recording it holds, or a new one
\* when the last run drew the recorder
RecorderValues(s) ==
    {s.mic} \cup (IF s.micShown /\ s.recs < MaxRecordings THEN {s.recs + 1} ELSE {})

\* app.py:369-600: one run of the script on the workspace page
WorkspaceScript(s, button, w, rec, ok) ==
    LET s0 == [s EXCEPT !.mic = rec, !.recs = IF rec > s.recs THEN rec ELSE s.recs,
                        !.last = "none",
                        !.opened = IF s.opened = "pending" THEN "first"
                                   ELSE IF s.opened = "first" THEN "later" ELSE s.opened]
    IN  IF button = "back"
        THEN [JobStateDeleted(s0) EXCEPT !.page = "dashboard", !.job = 0,
                                         !.rendered = "none", !.micShown = FALSE,
                                         !.mic = 0, !.last = "back"]
        ELSE LET s2 == TargetSet(InterviewInitialised(s0), w)
             IN  IF button = "end"
                 THEN [s2 EXCEPT !.ended = TRUE, !.rendered = "none", !.last = "end"]
                 ELSE IF button = "reset"
                      THEN [JobStateDeleted(s2) EXCEPT !.rendered = "none", !.last = "reset"]
                      ELSE IF ~s2.ended
                           THEN LET s3 == AnswerProcessed(s2, ok)
                                IN  [s3 EXCEPT !.micShown = TRUE,
                                               !.rendered = IF s3.last = "answer" THEN "none"
                                                            ELSE "workspace"]
                           ELSE LET s3 == Evaluated([s2 EXCEPT !.mic = 0], ok)
                                IN  [s3 EXCEPT !.micShown = FALSE,
                                               !.rendered = IF s3.report # s2.report THEN "none"
                                                            ELSE "workspace"]

InitInterview ==
    /\ chat_history = [form |-> "none", blob |-> << >>, elems |-> << >>]
    /\ StreamIdle
    /\ RouterAuxIdle
    /\ retrieval = NoRetrieval
    /\ GatewayIdle
    /\ FilesIdle
    /\ StartupIdle
    /\ RequestIdle
    /\ interview = NewSession

\* app.py:251-252, 229-238: the Reset Session button of the sidebar
SidebarReset ==
    /\ interview.rendered # "none"
    /\ interview' = SidebarResetState(interview)
    /\ UNCHANGED << chat_history, streamVars, norm, sessions, shared, retrieval,
                    gateway, files, startup, request >>

\* app.py:257-301: the landing page is drawn, or a CV is uploaded and analysed
LandingRun ==
    /\ interview.page = "landing"
    /\ \E pressed \in BOOLEAN :
        interview' = IF pressed /\ interview.rendered = "landing"
                     THEN [interview EXCEPT !.page = "dashboard", !.rendered = "none",
                                            !.last = "upload"]
                     ELSE [interview EXCEPT !.rendered = "landing", !.last = "none"]
    /\ UNCHANGED << chat_history, streamVars, norm, sessions, shared, retrieval,
                    gateway, files, startup, request >>

\* app.py:305-330: the dashboard is drawn, or one of its jobs is selected
DashboardRun ==
    /\ interview.page = "dashboard"
    /\ \E j \in {0} \cup DOMAIN JobTitles :
        interview' = IF j # 0 /\ interview.rendered = "dashboard"
                     THEN [interview EXCEPT !.job = j, !.page = "workspace",
                                            !.rendered = "none", !.last = "select"]
                     ELSE [interview EXCEPT !.rendered = "dashboard", !.last = "none"]
    /\ UNCHANGED << chat_history, streamVars, norm, sessions, shared, retrieval,
                    gateway, files, startup, request >>

\* app.py:343-366: a custom job is launched from the dashboard
LaunchCustomJob ==
    /\ interview.page = "dashboard"
    /\ interview.rendered = "dashboard"
    /\ \E j \in DOMAIN JobTitles :
        interview' = [JobStateDeleted(interview) EXCEPT
                         !.job = j, !.page = "workspace", !.rendered = "none",
                         !.last = "custom"]
    /\ UNCHANGED << chat_history, streamVars, norm, sessions, shared, retrieval,
                    gateway, files, startup, request >>

\* app.py:369-600: the workspace is run with the input of the user
WorkspaceRun ==
    /\ interview.page = "workspace"
    /\ \E button \in Buttons(interview), w \in 1..MaxQuestions,
          rec \in RecorderValues(interview), ok \in CallResults(interview) :
        interview' = WorkspaceScript(interview, button, w, rec, ok)
    /\ UNCHANGED << chat_history, streamVars, norm, sessions, shared, retrieval,
                    gateway, files, startup, request >>

NextInterview ==
    \/ SidebarReset
    \/ LandingRun
    \/ DashboardRun
    \/ LaunchCustomJob
    \/ WorkspaceRun

SpecInterview == InitInterview /\ [][NextInterview]_vars

\* the question count of a started interview is within its target
CountWithinTarget ==
    interview.started =>
        /\ interview.hasMax
        /\ 1 <= interview.count
        /\ interview.count <= interview.max

\* a run ends a started interview only by an answer at the target or by the
\* End Interview Early button, and an answer ends it exactly at the target
EndsAtTarget ==
    /\ (interview.started /\ interview'.started /\ ~interview.ended /\ interview'.ended) =>
           \/ interview'.last = "end"
           \/ interview'.last = "answer" /\ interview.count >= interview'.max
    /\ (interview.started /\ ~interview.ended /\ interview'.last = "answer") =>
           (interview'.ended <=> interview.count >= interview'.max)

\* an ended interview stays ended, asks the interviewer nothing and keeps its
\* count while its keys are stored
EndedIsFinal ==
    (interview.started /\ interview.ended /\ interview'.started) =>
        /\ interview'.ended
        /\ interview'.count = interview.count
        /\ interview'.asked = interview.asked

\* (C24) In every state of a session with a started interview the question
\* count is at least 1 and at most the target; the interview becomes ended
\* exactly when an answer is given at or past the target or End Interview Early
\* is pressed; and once it is ended no interviewer response is requested and the
\* count stays as it is until the keys are deleted.
C24_ConcludesAtTarget ==
    [](CountWithinTarget) /\ [][EndsAtTarget /\ EndedIsFinal]_vars

\* the second answer ended an interview of two questions
C24_Witness ==
    /\ interview.started
    /\ interview.ended
    /\ interview.last = "answer"
    /\ interview.count = 2
    /\ interview.max = 2
    /\ interview.asked = 1

\* the answers of the candidate in the log
AnswersLogged ==
    { interview.log[i].content[1] :
        i \in { k \in DOMAIN interview.log : interview.log[k].role = "user" } }

\* (C25) The history text given to evaluate_session holds every answer of the
\* candidate that is in interview_log, the answer that ended the interview too.
C25_EvaluationHasEveryAnswer ==
    (interview.evalText.called /\ interview.ended /\ interview.report # "none") =>
        \A a \in AnswersLogged : a \in Range(interview.evalText.text)

\* (C26) The first run of the workspace after Reset Session of the sidebar shows
\* a fresh interview: question count 1, not ended, no report, a history text
\* that names the selected job, and the opening question in the log.
C26_FreshAfterSidebarReset ==
    interview.opened = "first" =>
        /\ interview.count = 1
        /\ ~interview.ended
        /\ interview.report = "none"
        /\ interview.text = OpeningText(interview.job)
        /\ LogEntry("assistant", OpeningQuestion(interview.job)) \in Range(interview.log)

\* (C27) Whatever runs follow a recording, runs after a failed transcription or
\* a failed interviewer call too, the recording gives at most one user entry of
\* interview_log.
C27_RecordingOnce ==
    \A r \in 1..MaxRecordings :
        Cardinality({ i \in DOMAIN interview.log :
                        interview.log[i] = LogEntry("user", <<Transcripts[r]>>) }) <= 1

\* ================================================================== temporary files of app.py
\* the browser sessions served by the one process of the app
AppSessions == {1, 2}

\* app.py:274, 531: the paths are fixed names in the working directory of the
\* process
TempPath(flow) == IF flow = "cv" THEN "temp_cv_landing.pdf" ELSE "temp_ws_int.mp3"

\* what a session finds when it reads a path: nothing, its own bytes, another's
Found(disk, path, me) ==
    IF disk[path] = 0 THEN "missing" ELSE IF disk[path] = me THEN "own" ELSE "other"

IdleUpload ==
    [flow |-> "none", pc |-> "idle", extracted |-> "notyet", analysed |-> "notyet",
     failed |-> FALSE, uploads |-> 0]

\* no file exists and no session is uploading; disk maps a path to the session
\* whose bytes it holds, 0 for no file
InitFiles ==
    /\ chat_history = [form |-> "none", blob |-> << >>, elems |-> << >>]
    /\ StreamIdle
    /\ RouterAuxIdle
    /\ retrieval = NoRetrieval
    /\ GatewayIdle
    /\ InterviewIdle
    /\ StartupIdle
    /\ RequestIdle
    /\ files = [disk |-> [p \in {TempPath("cv"), TempPath("audio")} |-> 0],
                sess |-> [a \in AppSessions |-> IdleUpload]]

\* app.py:274-276, 531: a session writes its CV or its recording to the path
FileWritten(a) ==
    /\ files.sess[a].pc \in {"idle", "done"}
    /\ files.sess[a].uploads < MaxUploads
    /\ \E flow \in {"cv", "audio"} :
        files' = [files EXCEPT
            !.disk[TempPath(flow)] = a,
            !.sess[a] = [flow |-> flow, pc |-> "written", extracted |-> "notyet",
                         analysed |-> "notyet", failed |-> files.sess[a].failed,
                         uploads |-> files.sess[a].uploads + 1]]
    /\ UNCHANGED << chat_history, streamVars, norm, sessions, shared, retrieval,
                    gateway, interview, startup, request >>

\* app.py:280, 533-534: the text is extracted from the path, or the recording is
\* opened and transcribed; opening a recording that is not there raises
FileExtracted(a) ==
    /\ files.sess[a].pc = "written"
    /\ LET found == Found(files.disk, TempPath(files.sess[a].flow), a)
       IN  files' = [files EXCEPT
               !.sess[a].extracted = found,
               !.sess[a].failed = @ \/ (files.sess[a].flow = "audio" /\ found = "missing"),
               !.sess[a].pc = IF files.sess[a].flow = "audio"
                              THEN (IF found = "missing" THEN "done" ELSE "analysed")
                              ELSE "extracted"]
    /\ UNCHANGED << chat_history, streamVars, norm, sessions, shared, retrieval,
                    gateway, interview, startup, request >>

\* app.py:295: analyze_and_recommend reads the path again
FileAnalysed(a) ==
    /\ files.sess[a].pc = "extracted"
    /\ files' = [files EXCEPT
           !.sess[a].analysed = Found(files.disk, TempPath("cv"), a),
           !.sess[a].pc = "analysed"]
    /\ UNCHANGED << chat_history, streamVars, norm, sessions, shared, retrieval,
                    gateway, interview, startup, request >>

\* app.py:297, 555: os.remove of the path; it raises when the file is not there
FileRemoved(a) ==
    /\ files.sess[a].pc = "analysed"
    /\ LET path == TempPath(files.sess[a].flow)
       IN  files' = [files EXCEPT
               !.disk[path] = 0,
               !.sess[a].failed = @ \/ files.disk[path] = 0,
               !.sess[a].pc = "done"]
    /\ UNCHANGED << chat_history, streamVars, norm, sessions, shared, retrieval,
                    gateway, interview, startup, request >>

NextFiles ==
    \E a \in AppSessions :
        \/ FileWritten(a)
        \/ FileExtracted(a)
        \/ FileAnalysed(a)
        \/ FileRemoved(a)

SpecFiles == InitFiles /\ [][NextFiles]_vars

\* (C28) When two sessions of the app upload a CV or record an answer with any
\* interleaving of their steps, each session extracts and analyses the file it
\* wrote itself, and no session finds its file removed by another.
C28_SessionsKeepTheirFiles ==
    \A a \in AppSessions :
        /\ files.sess[a].extracted \in {"notyet", "own"}
        /\ files.sess[a].analysed \in {"notyet", "own"}
        /\ ~files.sess[a].failed

\* ------------------------------------------------------------- the API service
\* main.py:228-277: the agents of the registry, in the order the lifespan
\* builds them
AgentNames == << "orchestrator", "advisor", "cover_letter", "interview" >>

\* main.py:197-200, 232, 247, 259, 271: a class is None when its import failed;
\* a constructor returns the agent or raises
ConstructorOutcomes == {"missing", "built", "FileNotFoundError"} \cup ExceptionClasses

\* main.py:234-239, 249-251, 261-263: these handlers log the failure;
\* main.py:274: the handler of the interview agent calls f, a name the module
\* never binds, so the handler itself raises NameError
HandlerRaises(a) == a = "interview"

\* the lifespan is about to build the first agent; the registry is empty
\* (main.py:35)
InitStartup ==
    /\ chat_history = [form |-> "none", blob |-> << >>, elems |-> << >>]
    /\ StreamIdle
    /\ RouterAuxIdle
    /\ retrieval = NoRetrieval
    /\ GatewayIdle
    /\ InterviewIdle
    /\ FilesIdle
    /\ RequestIdle
    /\ \E o \in [Range(AgentNames) -> ConstructorOutcomes] :
        startup = [pc |-> AgentNames[1], outcome |-> o, registry |-> {},
                   logged |-> {}, raised |-> "none", chat |-> "none"]

\* one block of the lifespan: the class is skipped when it is None, the agent
\* is registered when the constructor returns, and the handler runs when it
\* raises
BlockRun(a, next) ==
    LET o == startup.outcome[a]
    IN  IF o = "missing" THEN [startup EXCEPT !.pc = next]
        ELSE IF o = "built"
        THEN [startup EXCEPT !.registry = @ \cup {a}, !.pc = next]
        ELSE IF HandlerRaises(a)
        THEN [startup EXCEPT !.raised = "NameError", !.pc = "failed"]
        ELSE [startup EXCEPT !.logged = @ \cup {a}, !.pc = next]

\* main.py:229-241
InitOrchestrator ==
    /\ startup.pc = "orchestrator"
    /\ startup' = BlockRun("orchestrator", "advisor")
    /\ UNCHANGED << chat_history, streamVars, norm, sessions, shared, retrieval,
                    gateway, interview, files, request >>

\* main.py:244-253
InitAdvisor ==
    /\ startup.pc = "advisor"
    /\ startup' = BlockRun("advisor", "cover_letter")
    /\ UNCHANGED << chat_history, streamVars, norm, sessions, shared, retrieval,
                    gateway, interview, files, request >>

\* main.py:256-265
InitCoverLetter ==
    /\ startup.pc = "cover_letter"
    /\ startup' = BlockRun("cover_letter", "interview")
    /\ UNCHANGED << chat_history, streamVars, norm, sessions, shared, retrieval,
                    gateway, interview, files, request >>

\* main.py:268-277
InitInterviewAgent ==
    /\ startup.pc = "interview"
    /\ startup' = BlockRun("interview", "summary")
    /\ UNCHANGED << chat_history, streamVars, norm, sessions, shared, retrieval,
                    gateway, interview, files, request >>

\* main.py:279-285: the summary is logged and the lifespan yields
Ready ==
    /\ startup.pc = "summary"
    /\ startup' = [startup EXCEPT !.pc = "ready"]
    /\ UNCHANGED << chat_history, streamVars, norm, sessions, shared, retrieval,
                    gateway, interview, files, request >>

\* main.py:422-436: the chat endpoint answers 503 when the registry has no
\* orchestrator, and routes the message otherwise
ChatEndpoint ==
    /\ startup.pc = "ready"
    /\ startup' = [startup EXCEPT
           !.chat = IF "orchestrator" \in startup.registry THEN "routed" ELSE "503"]
    /\ UNCHANGED << chat_history, streamVars, norm, sessions, shared, retrieval,
                    gateway, interview, files, request >>

\* main.py:287-289: the registry is cleared when the service stops
Shutdown ==
    /\ startup.pc = "ready"
    /\ startup' = [startup EXCEPT !.registry = {}, !.pc = "stopped"]
    /\ UNCHANGED << chat_history, streamVars, norm, sessions, shared, retrieval,
                    gateway, interview, files, request >>

NextStartup ==
    \/ InitOrchestrator
    \/ InitAdvisor
    \/ InitCoverLetter
    \/ InitInterviewAgent
    \/ Ready
    \/ ChatEndpoint
    \/ Shutdown

SpecStartup == InitStartup /\ [][NextStartup]_vars

\* the agents whose constructor raised
FailedAgents ==
    { a \in Range(AgentNames) : startup.outcome[a] \notin {"missing", "built"} }

\* (C29) Whichever constructors of the four agents raise, the lifespan raises
\* nothing and reaches its yield; there every failure has been logged, exactly
\* the agents whose constructor returned are registered, and the chat endpoint
\* answers 503 exactly when the orchestrator is not registered.
C29_StartupIsolatesFailures ==
    /\ startup.raised = "none"
    /\ startup.pc # "failed"
    /\ startup.pc = "ready" =>
        /\ startup.logged = FailedAgents
        /\ startup.registry =
             { a \in Range(AgentNames) : startup.outcome[a] = "built" }
        /\ startup.chat = "503" => "orchestrator" \notin startup.registry
        /\ startup.chat = "routed" => "orchestrator" \in startup.registry

\* ------------------------------------------------- the endpoints that take a CV
\* main.py:451, 536: analyze_cv and generate_cover_letter
Endpoints == {"analyze_cv", "generate_cover_letter"}

\* main.py:497, 590: the largest payload that is accepted, in bytes
MaxPdfBytes == 10 * 1024 * 1024

\* the lengths of the decoded payloads that are tried
PayloadSizes == {0, MaxPdfBytes - 1, MaxPdfBytes, MaxPdfBytes + 1}

\* main.py:497, 590
TooLarge(size) == size > MaxPdfBytes

\* a request has arrived: its endpoint, whether the agent of the endpoint is
\* registered, whether the base64 text decodes and how long the payload is;
\* no temporary file exists
InitRequest ==
    /\ chat_history = [form |-> "none", blob |-> << >>, elems |-> << >>]
    /\ StreamIdle
    /\ RouterAuxIdle
    /\ retrieval = NoRetrieval
    /\ GatewayIdle
    /\ InterviewIdle
    /\ FilesIdle
    /\ StartupIdle
    /\ \E endpoint \in Endpoints, registered \in BOOLEAN, decodes \in BOOLEAN,
          size \in PayloadSizes :
        request = [pc |-> "received", endpoint |-> endpoint,
                   registered |-> registered, decodes |-> decodes, size |-> size,
                   created |-> FALSE, onDisk |-> FALSE, pathBound |-> FALSE,
                   unlinkTried |-> FALSE, agent |-> "notcalled", status |-> 0]

\* the request ends with an HTTP status
Responds(code) == [request EXCEPT !.status = code, !.pc = "done"]

\* main.py:476-482, 569-575: 503 when the agent is not in the registry
AgentLookup ==
    /\ request.pc = "received"
    /\ request' = IF request.registered
                  THEN [request EXCEPT !.pc = "decode"]
                  ELSE Responds(503)
    /\ UNCHANGED << chat_history, streamVars, norm, sessions, shared, retrieval,
                    gateway, interview, files, startup >>

\* main.py:488-494, 581-587, 525-526, 621-622: b64decode raises, the handler
\* raises HTTPException 400 and the outer handler passes it on
DecodeBase64 ==
    /\ request.pc = "decode"
    /\ request' = IF request.decodes
                  THEN [request EXCEPT !.pc = "size"]
                  ELSE Responds(400)
    /\ UNCHANGED << chat_history, streamVars, norm, sessions, shared, retrieval,
                    gateway, interview, files, startup >>

\* main.py:497-501, 590-594
ValidateSize ==
    /\ request.pc = "size"
    /\ request' = IF TooLarge(request.size)
                  THEN Responds(413)
                  ELSE [request EXCEPT !.pc = "create"]
    /\ UNCHANGED << chat_history, streamVars, norm, sessions, shared, retrieval,
                    gateway, interview, files, startup >>

\* main.py:504, 597: NamedTemporaryFile(delete=False) creates the file, or
\* raises OSError and nothing is created; main.py:527-533, 623-629 answer 500
CreateTempFile ==
    /\ request.pc = "create"
    /\ \E ok \in BOOLEAN :
        request' = IF ok
                   THEN [request EXCEPT !.created = TRUE, !.onDisk = TRUE,
                                        !.pc = "write"]
                   ELSE Responds(500)
    /\ UNCHANGED << chat_history, streamVars, norm, sessions, shared, retrieval,
                    gateway, interview, files, startup >>

\* main.py:505-506, 598-599: the payload is written and temp_path is bound; a
\* write that raises OSError (the disk is full) leaves the with block before
\* temp_path is bound and before the try of main.py:508, 601 is entered: the
\* file stays, since delete=False, and the outer handler answers 500
WriteTempFile ==
    /\ request.pc = "write"
    /\ \E ok \in BOOLEAN :
        request' = IF ok
                   THEN [request EXCEPT !.pathBound = TRUE, !.pc = "agent"]
                   ELSE Responds(500)
    /\ UNCHANGED << chat_history, streamVars, norm, sessions, shared, retrieval,
                    gateway, interview, files, startup >>

\* main.py:510, 603-606: the agent returns its text or raises
AgentCall ==
    /\ request.pc = "agent"
    /\ \E o \in {"returned"} \cup ExceptionClasses :
        request' = [request EXCEPT !.agent = o, !.pc = "cleanup"]
    /\ UNCHANGED << chat_history, streamVars, norm, sessions, shared, retrieval,
                    gateway, interview, files, startup >>

\* main.py:517-523, 613-619: the finally block unlinks the file when it is
\* there; an unlink that raises is logged and the file stays; then the answer
\* is returned (main.py:512-515) or the outer handler answers 500
\* (main.py:527-533)
Cleanup ==
    /\ request.pc = "cleanup"
    /\ \E removed \in BOOLEAN :
        request' = [request EXCEPT
            !.unlinkTried = request.onDisk,
            !.onDisk = IF request.onDisk THEN ~removed ELSE FALSE,
            !.status = IF request.agent = "returned" THEN 200 ELSE 500,
            !.pc = "done"]
    /\ UNCHANGED << chat_history, streamVars, norm, sessions, shared, retrieval,
                    gateway, interview, files, startup >>

NextRequest ==
    \/ AgentLookup
    \/ DecodeBase64
    \/ ValidateSize
    \/ CreateTempFile
    \/ WriteTempFile
    \/ AgentCall
    \/ Cleanup

SpecRequest == InitRequest /\ [][NextRequest]_vars

\* (C30) A request to /cv/analyze or /cover-letter/generate that is answered
\* 400 or 413 has created no temporary file, and a finished request that did
\* create its temporary file has attempted to delete it.
C30_NoTempFileLeak ==
    request.pc = "done" =>
        /\ request.status \in {400, 413} => ~request.created
        /\ request.created => request.unlinkTried

====
